---- MODULE Spec2Model ----
(***************************************************************************)
(* A model of the chunk-api modpack registry: the Modpack Catalog, the     *)
(* Version Ledger, the Upload Manager and the Project Aggregator, as       *)
(* request handlers over one relational store and one upload directory.    *)
(* Handlers that read, compute and then commit are split at the commit,    *)
(* so that requests interleave as they do under a request-parallel server. *)
(* Strings the code takes apart (names, slugs, labels, file names, URLs)   *)
(* are sequences of one-character strings.                                 *)
(***************************************************************************)
EXTENDS Integers, Sequences, FiniteSets, Bags, TLC

(* ------------------------------ bounds -------------------------------- *)

\* Modpack rows ever inserted (the id sequence stops here).
MaxModpacks == 2
\* Version rows ever inserted.
MaxVersions == 2
\* Largest value a download counter is read at before a request is refused.
MaxDownloads == 2
\* Requests between their read and their commit at one time.
MaxInflight == 2
\* Latest creation timestamp the store's clock hands out.
MaxClock == 2

(* ------------------------------ values -------------------------------- *)

NULL == <<>>

Anon == 0
Users == {1, 2}
Callers == Users \cup {Anon}

Queries == { <<"A">>, <<"b">> }
McVersions == { <<"1.20">> }
Loaders == { <<"forge">> }
FileNames == { <<"f", ".zip">>, <<"f", ".mrpack">>, <<"f", ".exe">> }

\* MAX_FILE_SIZE, in units of one 8192-byte chunk of the upload loop.
MAX_FILE_SIZE == 2

(* ----------------------------- strings -------------------------------- *)

\* str.lower() on the characters of the model's alphabet.
Lower(c) == IF c = "A" THEN "a" ELSE IF c = "B" THEN "b" ELSE c

RECURSIVE MapLower(_)
MapLower(s) == IF s = <<>> THEN <<>> ELSE <<Lower(Head(s))>> \o MapLower(Tail(s))

RECURSIVE ReplaceChar(_, _, _)
ReplaceChar(s, from, to) ==
    IF s = <<>> THEN <<>>
    ELSE <<IF Head(s) = from THEN to ELSE Head(s)>> \o ReplaceChar(Tail(s), from, to)

RECURSIVE KeepChars(_, _)
KeepChars(s, allowed) ==
    IF s = <<>> THEN <<>>
    ELSE (IF Head(s) \in allowed THEN <<Head(s)>> ELSE <<>>) \o KeepChars(Tail(s), allowed)

\* allowed_chars, cut to the characters the model's inputs use.
allowed_chars == {"a", "b", "1", "-"}

generate_slug(name) == KeepChars(ReplaceChar(MapLower(name), " ", "-"), allowed_chars)

\* x ILIKE '%q%': a case-insensitive substring test; NULL matches nothing.
Contains(s, q) ==
    \E i \in 1..(Len(s) - Len(q) + 1) : SubSeq(s, i, i + Len(q) - 1) = q

ILikeContains(s, q) == s # NULL /\ Contains(MapLower(s), MapLower(q))

(* ---------------------------- sequences ------------------------------- *)

\* Every ordering of a finite set.
RECURSIVE Orderings(_)
Orderings(S) ==
    IF S = {} THEN { <<>> }
    ELSE UNION { { <<x>> \o t : t \in Orderings(S \ {x}) } : x \in S }

\* query.offset(skip).limit(limit) on an ordered result.
OffsetLimit(rows, skip, limit) ==
    SubSeq(rows, skip + 1, IF skip + limit < Len(rows) THEN skip + limit ELSE Len(rows))

RECURSIVE SumDownloads(_)
SumDownloads(S) ==
    IF S = {} THEN 0
    ELSE LET x == CHOOSE y \in S : TRUE IN x.downloads + SumDownloads(S \ {x})

(* ------------------------------ state --------------------------------- *)

VARIABLES
    modpacks,       \* the modpacks table: a set of rows
    versions,       \* the modpack_versions table: a set of rows
    files,          \* UPLOAD_DIR: the set of stored files, [name, size]
    nextModpackId,  \* the next value of modpacks.id
    nextVersionId,  \* the next value of modpack_versions.id
    pending,        \* requests between their read and their commit (a bag)
    resp            \* the response being returned, NoResp when there is none

vars == <<modpacks, versions, files, nextModpackId, nextVersionId, pending, resp>>

NoResp == [op |-> "none", caller |-> Anon, slug |-> NULL, arg |-> NULL, status |-> 0,
           body |-> <<>>]

\* The response of a handler, with the request it answers: the caller (Anon
\* for the handlers that take no current_user: they answer every caller
\* alike), the slug and the name or version label the request carried.
Respond(op, c, slug, arg, status, body) ==
    resp' = [op |-> op, caller |-> c, slug |-> slug, arg |-> arg, status |-> status,
             body |-> body]

\* A request in flight; the fields a handler does not use keep these defaults.
Request(op, c, slug) ==
    [op |-> op, caller |-> c, slug |-> slug, mid |-> 0, vid |-> 0, read |-> 0,
     label |-> NULL, stable |-> TRUE, url |-> NULL, file |-> NULL, size |-> 0]

Inflight(op) == { p \in BagToSet(pending) : p.op = op }

Admit(p) == pending' = pending (+) SetToBag({p})

Retire(p) == pending' = pending (-) SetToBag({p})

\* db.query(Modpack).filter(Modpack.slug == slug).first()
BySlug(slug) == { m \in modpacks : m.slug = slug }

ById(id) == { m \in modpacks : m.id = id }

\* db.query(ModpackVersion).filter(modpack_id == id, version == label)
ByLabel(id, label) == { v \in versions : v.modpack_id = id /\ v.version = label }

VersionsOf(id) == { v \in versions : v.modpack_id = id }

\* Depends(get_current_active_user): a request without a valid token is
\* answered 401 before the handler runs.
Authenticated(c) == c \in Users

Init ==
    /\ modpacks = {}
    /\ versions = {}
    /\ files = {}
    /\ nextModpackId = 1
    /\ nextVersionId = 1
    /\ pending = EmptyBag
    /\ resp = NoResp

\* The framework writes the handler's return value to the client.
SendResponse ==
    /\ resp # NoResp
    /\ resp' = NoResp
    /\ UNCHANGED <<modpacks, versions, files, nextModpackId, nextVersionId, pending>>

(* -------------------------- Modpack Catalog --------------------------- *)

NewModpack(id, name, c) ==
    [id |-> id, name |-> name, slug |-> generate_slug(name), description |-> NULL,
     mc_version |-> <<"1.20">>, loader |-> <<"forge">>, loader_version |-> NULL,
     recommended_ram_gb |-> 4, downloads |-> 0, author_id |-> c,
     is_published |-> FALSE]

\* create_modpack with the lookup on the name instead of the slug.
CreateModpackByName(c, name) ==
    LET slug == generate_slug(name) IN
    /\ IF ~Authenticated(c)
       THEN /\ Respond("create_modpack", c, slug, name, 401, <<>>)
            /\ UNCHANGED <<modpacks, nextModpackId>>
       ELSE IF { m \in modpacks : m.name = name } # {}
       THEN /\ Respond("create_modpack", c, slug, name, 400, <<>>)
            /\ UNCHANGED <<modpacks, nextModpackId>>
       ELSE LET m == NewModpack(nextModpackId, name, c) IN
            /\ nextModpackId <= MaxModpacks
            /\ modpacks' = modpacks \cup {m}
            /\ nextModpackId' = nextModpackId + 1
            /\ Respond("create_modpack", c, slug, name, 201, <<m>>)
    /\ UNCHANGED <<versions, files, nextVersionId, pending>>

\* create_modpack. The slug lookup and the insert are one step: the unique
\* index on modpacks.slug makes the insert fail when a row with the slug has
\* appeared since the lookup, so a row is added only if none has the slug.
CreateModpack(c, name) ==
    LET slug == generate_slug(name) IN
    /\ IF ~Authenticated(c)
       THEN /\ Respond("create_modpack", c, slug, name, 401, <<>>)
            /\ UNCHANGED <<modpacks, nextModpackId>>
       ELSE IF BySlug(slug) # {}
       THEN /\ Respond("create_modpack", c, slug, name, 400, <<>>)
            /\ UNCHANGED <<modpacks, nextModpackId>>
       ELSE LET m == NewModpack(nextModpackId, name, c) IN
            /\ nextModpackId <= MaxModpacks
            /\ modpacks' = modpacks \cup {m}
            /\ nextModpackId' = nextModpackId + 1
            /\ Respond("create_modpack", c, slug, name, 201, <<m>>)
    /\ UNCHANGED <<versions, files, nextVersionId, pending>>

ListFilter(mc, loader, published_only) ==
    { m \in modpacks :
        /\ published_only => m.is_published
        /\ mc # NULL => m.mc_version = mc
        /\ loader # NULL => m.loader = loader }

\* list_modpacks; the query has no ORDER BY, so the store picks the order.
ListModpacks(skip, limit, mc, loader, published_only) ==
    /\ \E rows \in Orderings(ListFilter(mc, loader, published_only)) :
          Respond("list_modpacks", Anon, NULL, NULL, 200, OffsetLimit(rows, skip, limit))
    /\ UNCHANGED <<modpacks, versions, files, nextModpackId, nextVersionId, pending>>

SearchFilter(q, mc, loader) ==
    { m \in modpacks :
        /\ m.is_published
        /\ ILikeContains(m.name, q) \/ ILikeContains(m.description, q)
        /\ mc # NULL => m.mc_version = mc
        /\ loader # NULL => m.loader = loader }

\* order_by(Modpack.downloads.desc()); rows of equal downloads in any order.
ByDownloadsDesc(rows) ==
    \A i \in 1..Len(rows) : \A j \in i..Len(rows) : rows[i].downloads >= rows[j].downloads

\* search_modpacks (the rate limiter in front of it is not modelled).
SearchModpacks(q, mc, loader, skip, limit) ==
    /\ \E rows \in Orderings(SearchFilter(q, mc, loader)) :
          /\ ByDownloadsDesc(rows)
          /\ Respond("search_modpacks", Anon, NULL, NULL, 200, OffsetLimit(rows, skip, limit))
    /\ UNCHANGED <<modpacks, versions, files, nextModpackId, nextVersionId, pending>>

\* get_modpack up to the read of modpack.downloads.
GetModpackRead(slug) ==
    /\ IF BySlug(slug) = {}
       THEN /\ Respond("get_modpack", Anon, slug, NULL, 404, <<>>)
            /\ UNCHANGED pending
       ELSE LET m == CHOOSE x \in BySlug(slug) : TRUE IN
            IF ~m.is_published
            THEN /\ Respond("get_modpack", Anon, slug, NULL, 404, <<>>)
                 /\ UNCHANGED pending
            ELSE /\ m.downloads < MaxDownloads
                 /\ Admit([Request("get_modpack", Anon, slug) EXCEPT
                              !.mid = m.id, !.read = m.downloads])
                 /\ resp' = NoResp
    /\ UNCHANGED <<modpacks, versions, files, nextModpackId, nextVersionId>>

\* get_modpack from "modpack.downloads += 1" to the return: the UPDATE sets
\* the column to the value read plus one; a row deleted since the read makes
\* the commit fail. The body is the row as reloaded after the commit.
GetModpackCommit(p) ==
    /\ p.op = "get_modpack"
    /\ Retire(p)
    /\ IF ById(p.mid) = {}
       THEN /\ Respond("get_modpack", Anon, p.slug, NULL, 500, <<>>)
            /\ UNCHANGED modpacks
       ELSE LET m == CHOOSE x \in ById(p.mid) : TRUE
                n == [m EXCEPT !.downloads = p.read + 1] IN
            /\ modpacks' = (modpacks \ {m}) \cup {n}
            /\ Respond("get_modpack", Anon, p.slug, NULL, 200, <<n>>)
    /\ UNCHANGED <<versions, files, nextModpackId, nextVersionId>>

\* The bodies of ModpackUpdate that the model's requests send.
Patches ==
    { [is_published |-> TRUE],
      [is_published |-> FALSE],
      [name |-> <<"a", " ", "b">>, recommended_ram_gb |-> 8] }

Patched(patch, field, old) == IF field \in DOMAIN patch THEN patch[field] ELSE old

\* The update deriving the slug again from a changed name.
ApplyPatchAndSlug(m, patch) ==
    [m EXCEPT !.name = Patched(patch, "name", @),
              !.slug = generate_slug(Patched(patch, "name", m.name)),
              !.description = Patched(patch, "description", @),
              !.mc_version = Patched(patch, "mc_version", @),
              !.loader = Patched(patch, "loader", @),
              !.loader_version = Patched(patch, "loader_version", @),
              !.recommended_ram_gb = Patched(patch, "recommended_ram_gb", @),
              !.is_published = Patched(patch, "is_published", @)]

\* for field, value in update_data.items(): setattr(modpack, field, value)
ApplyPatch(m, patch) ==
    [m EXCEPT !.name = Patched(patch, "name", @),
              !.description = Patched(patch, "description", @),
              !.mc_version = Patched(patch, "mc_version", @),
              !.loader = Patched(patch, "loader", @),
              !.loader_version = Patched(patch, "loader_version", @),
              !.recommended_ram_gb = Patched(patch, "recommended_ram_gb", @),
              !.is_published = Patched(patch, "is_published", @)]

UpdateModpack(c, slug, patch) ==
    /\ IF ~Authenticated(c)
       THEN /\ Respond("update_modpack", c, slug, NULL, 401, <<>>)
            /\ UNCHANGED modpacks
       ELSE IF BySlug(slug) = {}
       THEN /\ Respond("update_modpack", c, slug, NULL, 404, <<>>)
            /\ UNCHANGED modpacks
       ELSE LET m == CHOOSE x \in BySlug(slug) : TRUE IN
            IF m.author_id # c
            THEN /\ Respond("update_modpack", c, slug, NULL, 403, <<>>)
                 /\ UNCHANGED modpacks
            ELSE LET n == ApplyPatch(m, patch) IN
                 /\ modpacks' = (modpacks \ {m}) \cup {n}
                 /\ Respond("update_modpack", c, slug, NULL, 200, <<n>>)
    /\ UNCHANGED <<versions, files, nextModpackId, nextVersionId, pending>>

\* delete_modpack without the cascade to the version rows.
DeleteModpackOrphaning(c, slug) ==
    /\ IF ~Authenticated(c)
       THEN /\ Respond("delete_modpack", c, slug, NULL, 401, <<>>)
            /\ UNCHANGED <<modpacks, versions>>
       ELSE IF BySlug(slug) = {}
       THEN /\ Respond("delete_modpack", c, slug, NULL, 404, <<>>)
            /\ UNCHANGED <<modpacks, versions>>
       ELSE LET m == CHOOSE x \in BySlug(slug) : TRUE IN
            IF m.author_id # c
            THEN /\ Respond("delete_modpack", c, slug, NULL, 403, <<>>)
                 /\ UNCHANGED <<modpacks, versions>>
            ELSE /\ modpacks' = modpacks \ {m}
                 /\ versions' = versions
                 /\ Respond("delete_modpack", c, slug, NULL, 204, <<>>)
    /\ UNCHANGED <<files, nextModpackId, nextVersionId, pending>>

\* delete_modpack; the versions relationship cascades the delete to the
\* modpack's version rows. Nothing here touches UPLOAD_DIR.
DeleteModpack(c, slug) ==
    /\ IF ~Authenticated(c)
       THEN /\ Respond("delete_modpack", c, slug, NULL, 401, <<>>)
            /\ UNCHANGED <<modpacks, versions>>
       ELSE IF BySlug(slug) = {}
       THEN /\ Respond("delete_modpack", c, slug, NULL, 404, <<>>)
            /\ UNCHANGED <<modpacks, versions>>
       ELSE LET m == CHOOSE x \in BySlug(slug) : TRUE IN
            IF m.author_id # c
            THEN /\ Respond("delete_modpack", c, slug, NULL, 403, <<>>)
                 /\ UNCHANGED <<modpacks, versions>>
            ELSE /\ modpacks' = modpacks \ {m}
                 /\ versions' = versions \ VersionsOf(m.id)
                 /\ Respond("delete_modpack", c, slug, NULL, 204, <<>>)
    /\ UNCHANGED <<files, nextModpackId, nextVersionId, pending>>

(* --------------------------- Version Ledger --------------------------- *)

Latest == IF versions = {} THEN 0
          ELSE CHOOSE t \in { v.created_at : v \in versions } :
                   \A v \in versions : v.created_at <= t

\* server_default=func.now(): not before the newest row, possibly equal to it.
Timestamps == { t \in 1..MaxClock : t = Latest \/ t = Latest + 1 }

NewVersion(id, mid, label, stable, url, t) ==
    [id |-> id, modpack_id |-> mid, version |-> label, mc_version |-> <<"1.20">>,
     loader |-> <<"forge">>, loader_version |-> NULL, changelog |-> NULL,
     download_url |-> url, file_size |-> NULL, downloads |-> 0,
     is_stable |-> stable, created_at |-> t]

\* create_version without the lookup of (modpack_id, version).
CreateVersionUnchecked(c, slug, label, stable, url) ==
    /\ IF ~Authenticated(c)
       THEN /\ Respond("create_version", c, slug, label, 401, <<>>)
            /\ UNCHANGED pending
       ELSE IF BySlug(slug) = {}
       THEN /\ Respond("create_version", c, slug, label, 404, <<>>)
            /\ UNCHANGED pending
       ELSE LET m == CHOOSE x \in BySlug(slug) : TRUE IN
            IF m.author_id # c
            THEN /\ Respond("create_version", c, slug, label, 403, <<>>)
                 /\ UNCHANGED pending
            ELSE /\ nextVersionId + Cardinality(Inflight("create_version")) <= MaxVersions
                 /\ Admit([Request("create_version", c, slug) EXCEPT
                              !.mid = m.id, !.label = label, !.stable = stable,
                              !.url = url])
                 /\ resp' = NoResp
    /\ UNCHANGED <<modpacks, versions, files, nextModpackId, nextVersionId>>

\* create_version up to the lookup of (modpack_id, version).
CreateVersionCheck(c, slug, label, stable, url) ==
    /\ IF ~Authenticated(c)
       THEN /\ Respond("create_version", c, slug, label, 401, <<>>)
            /\ UNCHANGED pending
       ELSE IF BySlug(slug) = {}
       THEN /\ Respond("create_version", c, slug, label, 404, <<>>)
            /\ UNCHANGED pending
       ELSE LET m == CHOOSE x \in BySlug(slug) : TRUE IN
            IF m.author_id # c
            THEN /\ Respond("create_version", c, slug, label, 403, <<>>)
                 /\ UNCHANGED pending
            ELSE IF ByLabel(m.id, label) # {}
            THEN /\ Respond("create_version", c, slug, label, 400, <<>>)
                 /\ UNCHANGED pending
            ELSE /\ nextVersionId + Cardinality(Inflight("create_version")) <= MaxVersions
                 /\ Admit([Request("create_version", c, slug) EXCEPT
                              !.mid = m.id, !.label = label, !.stable = stable,
                              !.url = url])
                 /\ resp' = NoResp
    /\ UNCHANGED <<modpacks, versions, files, nextModpackId, nextVersionId>>

\* create_version from db.add to the return. modpack_versions has no unique
\* index on (modpack_id, version); the foreign key rejects a row whose
\* modpack has been deleted since the lookup.
CreateVersionCommit(p) ==
    /\ p.op = "create_version"
    /\ Retire(p)
    /\ IF ById(p.mid) = {}
       THEN /\ Respond("create_version", p.caller, p.slug, p.label, 500, <<>>)
            /\ UNCHANGED <<versions, nextVersionId>>
       ELSE \E t \in Timestamps :
            LET v == NewVersion(nextVersionId, p.mid, p.label, p.stable, p.url, t) IN
            /\ versions' = versions \cup {v}
            /\ nextVersionId' = nextVersionId + 1
            /\ Respond("create_version", p.caller, p.slug, p.label, 201, <<v>>)
    /\ UNCHANGED <<modpacks, files, nextModpackId>>

\* order_by(ModpackVersion.created_at.desc()); equal timestamps in any order.
ByCreatedDesc(rows) ==
    \A i \in 1..Len(rows) : \A j \in i..Len(rows) : rows[i].created_at >= rows[j].created_at

\* list_versions without the is_published test.
ListVersionsOfAny(slug, stable_only) ==
    /\ IF BySlug(slug) = {}
       THEN Respond("list_versions", Anon, slug, NULL, 404, <<>>)
       ELSE LET m == CHOOSE x \in BySlug(slug) : TRUE IN
            \E rows \in Orderings({ v \in VersionsOf(m.id) : stable_only => v.is_stable }) :
               /\ ByCreatedDesc(rows)
               /\ Respond("list_versions", Anon, slug, NULL, 200, rows)
    /\ UNCHANGED <<modpacks, versions, files, nextModpackId, nextVersionId, pending>>

ListVersions(slug, stable_only) ==
    /\ IF BySlug(slug) = {}
       THEN Respond("list_versions", Anon, slug, NULL, 404, <<>>)
       ELSE LET m == CHOOSE x \in BySlug(slug) : TRUE IN
            IF ~m.is_published
            THEN Respond("list_versions", Anon, slug, NULL, 404, <<>>)
            ELSE \E rows \in Orderings({ v \in VersionsOf(m.id) : stable_only => v.is_stable }) :
                    /\ ByCreatedDesc(rows)
                    /\ Respond("list_versions", Anon, slug, NULL, 200, rows)
    /\ UNCHANGED <<modpacks, versions, files, nextModpackId, nextVersionId, pending>>

\* get_version up to the read of db_version.downloads; first() takes any of
\* the rows that carry the label.
GetVersionRead(slug, label) ==
    /\ IF BySlug(slug) = {}
       THEN /\ Respond("get_version", Anon, slug, label, 404, <<>>)
            /\ UNCHANGED pending
       ELSE LET m == CHOOSE x \in BySlug(slug) : TRUE IN
            IF ~m.is_published \/ ByLabel(m.id, label) = {}
            THEN /\ Respond("get_version", Anon, slug, label, 404, <<>>)
                 /\ UNCHANGED pending
            ELSE \E v \in ByLabel(m.id, label) :
                 /\ v.downloads < MaxDownloads
                 /\ Admit([Request("get_version", Anon, slug) EXCEPT
                              !.mid = m.id, !.vid = v.id, !.label = label,
                              !.read = v.downloads])
                 /\ resp' = NoResp
    /\ UNCHANGED <<modpacks, versions, files, nextModpackId, nextVersionId>>

\* get_version from "db_version.downloads += 1" to the return.
GetVersionCommit(p) ==
    /\ p.op = "get_version"
    /\ Retire(p)
    /\ IF { v \in versions : v.id = p.vid } = {}
       THEN /\ Respond("get_version", Anon, p.slug, p.label, 500, <<>>)
            /\ UNCHANGED versions
       ELSE LET v == CHOOSE x \in versions : x.id = p.vid
                w == [v EXCEPT !.downloads = p.read + 1] IN
            /\ versions' = (versions \ {v}) \cup {w}
            /\ Respond("get_version", Anon, p.slug, p.label, 200, <<w>>)
    /\ UNCHANGED <<modpacks, files, nextModpackId, nextVersionId>>

\* get_latest_version: the first row of the modpack's versions, of the
\* stable ones if stable_only, by created_at descending.
get_latest_version(slug, stable_only) ==
    /\ IF BySlug(slug) = {}
       THEN Respond("get_latest_version", Anon, slug, <<"latest">>, 404, <<>>)
       ELSE LET m == CHOOSE x \in BySlug(slug) : TRUE
                matching == { v \in VersionsOf(m.id) : stable_only => v.is_stable } IN
            IF ~m.is_published \/ matching = {}
            THEN Respond("get_latest_version", Anon, slug, <<"latest">>, 404, <<>>)
            ELSE \E rows \in Orderings(matching) :
                    /\ ByCreatedDesc(rows)
                    /\ Respond("get_latest_version", Anon, slug, <<"latest">>, 200,
                               <<rows[1]>>)
    /\ UNCHANGED <<modpacks, versions, files, nextModpackId, nextVersionId, pending>>

\* The GET routes of the versions router that take one path segment, in
\* the order the decorators register them.
GetRoutes ==
    << [path |-> <<"{version}">>, endpoint |-> "get_version"],
       [path |-> <<"latest">>, endpoint |-> "get_latest_version"] >>

\* A path parameter matches any segment, a literal path only itself.
RouteMatches(route, segment) == route.path = <<"{version}">> \/ route.path = segment

\* The router hands a request to the first route that matches its path.
Endpoint(segment) ==
    LET i == CHOOSE k \in 1..Len(GetRoutes) :
                 /\ RouteMatches(GetRoutes[k], segment)
                 /\ \A j \in 1..(k - 1) : ~RouteMatches(GetRoutes[j], segment)
    IN GetRoutes[i].endpoint

\* GET /modpacks/{slug}/versions/{segment}, up to the handler's commit.
GetVersionsPath(slug, segment, stable_only) ==
    IF Endpoint(segment) = "get_latest_version"
    THEN get_latest_version(slug, stable_only)
    ELSE GetVersionRead(slug, segment)

(* -------------------------- Project Aggregator ------------------------ *)

\* The sort with reverse=True applied to created_at only.
sorted_versions_oldest_id_first(S) ==
    CHOOSE rows \in Orderings(S) :
        \A i \in 1..Len(rows) : \A j \in i..Len(rows) :
            \/ rows[i].created_at > rows[j].created_at
            \/ rows[i].created_at = rows[j].created_at /\ rows[i].id <= rows[j].id

\* sorted(modpack.versions, key=(created_at, id), reverse=True)
sorted_versions(S) ==
    CHOOSE rows \in Orderings(S) :
        \A i \in 1..Len(rows) : \A j \in i..Len(rows) :
            \/ rows[i].created_at > rows[j].created_at
            \/ rows[i].created_at = rows[j].created_at /\ rows[i].id >= rows[j].id

\* The detail with total_downloads as the sum of all counters.
ProjectDetailOfGrandTotal(m) ==
    [id |-> m.id, name |-> m.name, slug |-> m.slug, description |-> m.description,
     mc_version |-> m.mc_version, loader |-> m.loader,
     loader_version |-> m.loader_version,
     recommended_ram_gb |-> m.recommended_ram_gb, downloads |-> m.downloads,
     is_published |-> m.is_published, author |-> m.author_id,
     versions |-> sorted_versions(VersionsOf(m.id)),
     total_downloads |-> m.downloads + SumDownloads(VersionsOf(m.id)),
     version_downloads |-> SumDownloads(VersionsOf(m.id))]

ProjectDetailOf(m) ==
    [id |-> m.id, name |-> m.name, slug |-> m.slug, description |-> m.description,
     mc_version |-> m.mc_version, loader |-> m.loader,
     loader_version |-> m.loader_version,
     recommended_ram_gb |-> m.recommended_ram_gb, downloads |-> m.downloads,
     is_published |-> m.is_published, author |-> m.author_id,
     versions |-> sorted_versions(VersionsOf(m.id)),
     total_downloads |-> m.downloads,
     version_downloads |-> SumDownloads(VersionsOf(m.id))]

\* get_project_detail counting the fetch as get_modpack does.
get_project_detail_counting(slug) ==
    /\ IF BySlug(slug) = {}
       THEN /\ Respond("get_project_detail", Anon, slug, NULL, 404, <<>>)
            /\ UNCHANGED modpacks
       ELSE LET m == CHOOSE x \in BySlug(slug) : TRUE IN
            IF ~m.is_published \/ m.downloads >= MaxDownloads
            THEN /\ Respond("get_project_detail", Anon, slug, NULL, 404, <<>>)
                 /\ UNCHANGED modpacks
            ELSE LET n == [m EXCEPT !.downloads = @ + 1] IN
                 /\ modpacks' = (modpacks \ {m}) \cup {n}
                 /\ Respond("get_project_detail", Anon, slug, NULL, 200,
                            <<ProjectDetailOf(n)>>)
    /\ UNCHANGED <<versions, files, nextModpackId, nextVersionId, pending>>

get_project_detail(slug) ==
    /\ IF BySlug(slug) = {}
       THEN Respond("get_project_detail", Anon, slug, NULL, 404, <<>>)
       ELSE LET m == CHOOSE x \in BySlug(slug) : TRUE IN
            IF ~m.is_published
            THEN Respond("get_project_detail", Anon, slug, NULL, 404, <<>>)
            ELSE Respond("get_project_detail", Anon, slug, NULL, 200, <<ProjectDetailOf(m)>>)
    /\ UNCHANGED <<modpacks, versions, files, nextModpackId, nextVersionId, pending>>

(* --------------------------- Upload Manager --------------------------- *)

\* file.filename.endswith(('.zip', '.mrpack'))
AllowedExtension(fname) == fname[Len(fname)] \in {".zip", ".mrpack"}

\* Path(file.filename).suffix
Suffix(fname) == <<fname[Len(fname)]>>

\* f"{slug}-{version}{file_extension}"
safe_filename(slug, label, fname) == slug \o <<"-">> \o label \o Suffix(fname)

\* f"/uploads/{safe_filename}"
UploadUrl(file) == <<"/", "uploads", "/">> \o file

\* download_url.split("/")[-1]
RECURSIVE LastSegment(_)
LastSegment(url) ==
    IF \A i \in 1..Len(url) : url[i] # "/" THEN url
    ELSE LastSegment(Tail(url))

Stored(file) == { f \in files : f.name = file }

Unlink(file) == files \ Stored(file)

\* upload_modpack_file testing the extension after it has opened the file.
UploadOpenThenTestExtension(c, slug, label, fname, size) ==
    /\ IF ~Authenticated(c)
       THEN /\ Respond("upload_modpack_file", c, slug, label, 401, <<>>)
            /\ UNCHANGED <<files, pending>>
       ELSE IF BySlug(slug) = {}
       THEN /\ Respond("upload_modpack_file", c, slug, label, 404, <<>>)
            /\ UNCHANGED <<files, pending>>
       ELSE LET m == CHOOSE x \in BySlug(slug) : TRUE IN
            IF m.author_id # c
            THEN /\ Respond("upload_modpack_file", c, slug, label, 403, <<>>)
                 /\ UNCHANGED <<files, pending>>
            ELSE IF ~AllowedExtension(fname)
            THEN /\ Respond("upload_modpack_file", c, slug, label, 400, <<>>)
                 /\ files' = Unlink(safe_filename(slug, label, fname))
                                \cup {[name |-> safe_filename(slug, label, fname), size |-> 0]}
                 /\ UNCHANGED pending
            ELSE IF ByLabel(m.id, label) = {}
            THEN /\ Respond("upload_modpack_file", c, slug, label, 404, <<>>)
                 /\ UNCHANGED <<files, pending>>
            ELSE \E v \in ByLabel(m.id, label) :
                 LET file == safe_filename(slug, label, fname) IN
                 /\ files' = Unlink(file) \cup {[name |-> file, size |-> 0]}
                 /\ Admit([Request("upload_modpack_file", c, slug) EXCEPT
                              !.mid = m.id, !.vid = v.id, !.label = label,
                              !.file = file, !.size = size])
                 /\ resp' = NoResp
    /\ UNCHANGED <<modpacks, versions, nextModpackId, nextVersionId>>

\* upload_modpack_file up to file_path.open("wb"), which creates the file
\* or truncates the one that is there.
UploadOpen(c, slug, label, fname, size) ==
    /\ IF ~Authenticated(c)
       THEN /\ Respond("upload_modpack_file", c, slug, label, 401, <<>>)
            /\ UNCHANGED <<files, pending>>
       ELSE IF BySlug(slug) = {}
       THEN /\ Respond("upload_modpack_file", c, slug, label, 404, <<>>)
            /\ UNCHANGED <<files, pending>>
       ELSE LET m == CHOOSE x \in BySlug(slug) : TRUE IN
            IF m.author_id # c
            THEN /\ Respond("upload_modpack_file", c, slug, label, 403, <<>>)
                 /\ UNCHANGED <<files, pending>>
            ELSE IF ~AllowedExtension(fname)
            THEN /\ Respond("upload_modpack_file", c, slug, label, 400, <<>>)
                 /\ UNCHANGED <<files, pending>>
            ELSE IF ByLabel(m.id, label) = {}
            THEN /\ Respond("upload_modpack_file", c, slug, label, 404, <<>>)
                 /\ UNCHANGED <<files, pending>>
            ELSE \E v \in ByLabel(m.id, label) :
                 LET file == safe_filename(slug, label, fname) IN
                 /\ files' = Unlink(file) \cup {[name |-> file, size |-> 0]}
                 /\ Admit([Request("upload_modpack_file", c, slug) EXCEPT
                              !.mid = m.id, !.vid = v.id, !.label = label,
                              !.file = file, !.size = size])
                 /\ resp' = NoResp
    /\ UNCHANGED <<modpacks, versions, nextModpackId, nextVersionId>>

\* The bytes a file holds after a writer that opened it at offset 0 has
\* written `size` bytes: what another writer put beyond them stays.
Written(file, size) ==
    LET old == CHOOSE f \in Stored(file) : TRUE IN
    [name |-> file, size |-> IF old.size > size THEN old.size ELSE size]

\* detail=f"Upload failed: {str(e)}": the text names the exception caught.
UploadFailed(cause) == <<[detail |-> cause]>>

\* upload_modpack_file leaving the partial file when the size check fails.
UploadFinishKeepingPartial(p) ==
    /\ p.op = "upload_modpack_file"
    /\ Retire(p)
    /\ IF p.size > MAX_FILE_SIZE /\ Stored(p.file) # {}
       THEN /\ files' = Unlink(p.file) \cup {Written(p.file, MAX_FILE_SIZE)}
            /\ UNCHANGED versions
            /\ Respond("upload_modpack_file", p.caller, p.slug, p.label, 500,
                       UploadFailed("413"))
       ELSE IF Stored(p.file) = {}
       THEN /\ UNCHANGED <<files, versions>>
            /\ Respond("upload_modpack_file", p.caller, p.slug, p.label, 500,
                       UploadFailed("FileNotFoundError"))
       ELSE IF { v \in versions : v.id = p.vid } = {}
       THEN /\ files' = Unlink(p.file)
            /\ UNCHANGED versions
            /\ Respond("upload_modpack_file", p.caller, p.slug, p.label, 500,
                       UploadFailed("StaleDataError"))
       ELSE LET v == CHOOSE x \in versions : x.id = p.vid
                w == [v EXCEPT !.download_url = UploadUrl(p.file),
                               !.file_size = <<p.size>>] IN
            /\ files' = Unlink(p.file) \cup {Written(p.file, p.size)}
            /\ versions' = (versions \ {v}) \cup {w}
            /\ Respond("upload_modpack_file", p.caller, p.slug, p.label, 200,
                       <<[filename |-> p.file, size |-> p.size,
                          download_url |-> w.download_url]>>)
    /\ UNCHANGED <<modpacks, nextModpackId, nextVersionId>>

\* upload_modpack_file from the chunk loop to the return. The HTTPException
\* of the size check is an Exception, so the except clause catches it, as
\* it catches a file that is gone at the hash and a commit that fails.
UploadFinish(p) ==
    /\ p.op = "upload_modpack_file"
    /\ Retire(p)
    /\ IF p.size > MAX_FILE_SIZE /\ Stored(p.file) # {}
       THEN /\ files' = Unlink(p.file)
            /\ UNCHANGED versions
            /\ Respond("upload_modpack_file", p.caller, p.slug, p.label, 500,
                       UploadFailed("413"))
       ELSE IF Stored(p.file) = {}
       THEN /\ UNCHANGED <<files, versions>>
            /\ Respond("upload_modpack_file", p.caller, p.slug, p.label, 500,
                       UploadFailed("FileNotFoundError"))
       ELSE IF { v \in versions : v.id = p.vid } = {}
       THEN /\ files' = Unlink(p.file)
            /\ UNCHANGED versions
            /\ Respond("upload_modpack_file", p.caller, p.slug, p.label, 500,
                       UploadFailed("StaleDataError"))
       ELSE LET v == CHOOSE x \in versions : x.id = p.vid
                w == [v EXCEPT !.download_url = UploadUrl(p.file),
                               !.file_size = <<p.size>>] IN
            /\ files' = Unlink(p.file) \cup {Written(p.file, p.size)}
            /\ versions' = (versions \ {v}) \cup {w}
            /\ Respond("upload_modpack_file", p.caller, p.slug, p.label, 200,
                       <<[filename |-> p.file, size |-> p.size,
                          download_url |-> w.download_url]>>)
    /\ UNCHANGED <<modpacks, nextModpackId, nextVersionId>>

\* delete_modpack_file without the author test.
delete_modpack_file_by_anyone(c, slug, label) ==
    /\ IF ~Authenticated(c)
       THEN /\ Respond("delete_modpack_file", c, slug, label, 401, <<>>)
            /\ UNCHANGED <<versions, files>>
       ELSE IF BySlug(slug) = {}
       THEN /\ Respond("delete_modpack_file", c, slug, label, 404, <<>>)
            /\ UNCHANGED <<versions, files>>
       ELSE LET m == CHOOSE x \in BySlug(slug) : TRUE IN
            IF ByLabel(m.id, label) = {}
            THEN /\ Respond("delete_modpack_file", c, slug, label, 404, <<>>)
                 /\ UNCHANGED <<versions, files>>
            ELSE \E v \in ByLabel(m.id, label) :
                 IF v.download_url = NULL
                 THEN /\ Respond("delete_modpack_file", c, slug, label, 404, <<>>)
                      /\ UNCHANGED <<versions, files>>
                 ELSE /\ files' = Unlink(LastSegment(v.download_url))
                      /\ versions' = (versions \ {v}) \cup
                             {[v EXCEPT !.download_url = NULL, !.file_size = NULL]}
                      /\ Respond("delete_modpack_file", c, slug, label, 200, <<>>)
    /\ UNCHANGED <<modpacks, nextModpackId, nextVersionId, pending>>

\* delete_modpack_file deleting the version row with its file.
delete_modpack_file_with_version(c, slug, label) ==
    /\ IF ~Authenticated(c)
       THEN /\ Respond("delete_modpack_file", c, slug, label, 401, <<>>)
            /\ UNCHANGED <<versions, files>>
       ELSE IF BySlug(slug) = {}
       THEN /\ Respond("delete_modpack_file", c, slug, label, 404, <<>>)
            /\ UNCHANGED <<versions, files>>
       ELSE LET m == CHOOSE x \in BySlug(slug) : TRUE IN
            IF m.author_id # c
            THEN /\ Respond("delete_modpack_file", c, slug, label, 403, <<>>)
                 /\ UNCHANGED <<versions, files>>
            ELSE IF ByLabel(m.id, label) = {}
            THEN /\ Respond("delete_modpack_file", c, slug, label, 404, <<>>)
                 /\ UNCHANGED <<versions, files>>
            ELSE \E v \in ByLabel(m.id, label) :
                 IF v.download_url = NULL
                 THEN /\ Respond("delete_modpack_file", c, slug, label, 404, <<>>)
                      /\ UNCHANGED <<versions, files>>
                 ELSE /\ files' = Unlink(LastSegment(v.download_url))
                      /\ versions' = versions \ {v}
                      /\ Respond("delete_modpack_file", c, slug, label, 200, <<>>)
    /\ UNCHANGED <<modpacks, nextModpackId, nextVersionId, pending>>

delete_modpack_file(c, slug, label) ==
    /\ IF ~Authenticated(c)
       THEN /\ Respond("delete_modpack_file", c, slug, label, 401, <<>>)
            /\ UNCHANGED <<versions, files>>
       ELSE IF BySlug(slug) = {}
       THEN /\ Respond("delete_modpack_file", c, slug, label, 404, <<>>)
            /\ UNCHANGED <<versions, files>>
       ELSE LET m == CHOOSE x \in BySlug(slug) : TRUE IN
            IF m.author_id # c
            THEN /\ Respond("delete_modpack_file", c, slug, label, 403, <<>>)
                 /\ UNCHANGED <<versions, files>>
            ELSE IF ByLabel(m.id, label) = {}
            THEN /\ Respond("delete_modpack_file", c, slug, label, 404, <<>>)
                 /\ UNCHANGED <<versions, files>>
            ELSE \E v \in ByLabel(m.id, label) :
                 IF v.download_url = NULL
                 THEN /\ Respond("delete_modpack_file", c, slug, label, 404, <<>>)
                      /\ UNCHANGED <<versions, files>>
                 ELSE /\ files' = Unlink(LastSegment(v.download_url))
                      /\ versions' = (versions \ {v}) \cup
                             {[v EXCEPT !.download_url = NULL, !.file_size = NULL]}
                      /\ Respond("delete_modpack_file", c, slug, label, 200, <<>>)
    /\ UNCHANGED <<modpacks, nextModpackId, nextVersionId, pending>>

(* ---------------------------- specification --------------------------- *)

\* A worker is free to take a request, of the `workers` the server runs.
Ready(workers) == resp = NoResp /\ BagCardinality(pending) < workers

\* A request in flight may go on to its commit.
Resumes(p) == resp = NoResp /\ p \in BagToSet(pending)

Requests == BagToSet(pending)

\* The slugs requests are addressed to; only the name "a b" makes the last.
Targets == { <<"a">>, <<"a", "-", "b">> }

\* The names of the whole-service workload: both make the slug "a".
SameSlugNames == { <<"a">>, <<"A", "!">> }

\* The whole service, one request at a time.
Next ==
    \/ \E c \in Callers, name \in SameSlugNames : Ready(1) /\ CreateModpack(c, name)
    \/ \E skip \in 0..1, limit \in 1..2, mc \in McVersions \cup {NULL},
          loader \in Loaders \cup {NULL}, po \in BOOLEAN :
          Ready(1) /\ ListModpacks(skip, limit, mc, loader, po)
    \/ \E q \in Queries, skip \in 0..1, limit \in 1..2 :
          Ready(1) /\ SearchModpacks(q, NULL, NULL, skip, limit)
    \/ \E slug \in Targets : Ready(1) /\ GetModpackRead(slug)
    \/ \E p \in Requests : Resumes(p) /\ GetModpackCommit(p)
    \/ \E c \in Callers, slug \in Targets, patch \in Patches :
          Ready(1) /\ UpdateModpack(c, slug, patch)
    \/ \E c \in Callers, slug \in Targets : Ready(1) /\ DeleteModpack(c, slug)
    \/ \E c \in Callers, slug \in Targets :
          Ready(1) /\ CreateVersionCheck(c, slug, <<"1">>, TRUE, NULL)
    \/ \E p \in Requests : Resumes(p) /\ CreateVersionCommit(p)
    \/ \E slug \in Targets, so \in BOOLEAN : Ready(1) /\ ListVersions(slug, so)
    \/ \E slug \in Targets : Ready(1) /\ GetVersionRead(slug, <<"1">>)
    \/ \E p \in Requests : Resumes(p) /\ GetVersionCommit(p)
    \/ \E slug \in Targets : Ready(1) /\ get_project_detail(slug)
    \/ \E c \in Callers, slug \in Targets, fname \in FileNames, size \in {1, MAX_FILE_SIZE + 1} :
          Ready(1) /\ UploadOpen(c, slug, <<"1">>, fname, size)
    \/ \E p \in Requests : Resumes(p) /\ UploadFinish(p)
    \/ \E c \in Callers, slug \in Targets :
          Ready(1) /\ delete_modpack_file(c, slug, <<"1">>)
    \/ SendResponse

Spec == Init /\ [][Next]_vars

\* Requests to one modpack, MaxInflight of them at a time: the reads and
\* commits of different requests interleave.
NextRace ==
    \/ Ready(MaxInflight) /\ CreateModpack(1, <<"a">>)
    \/ \E patch \in Patches : Ready(MaxInflight) /\ UpdateModpack(1, <<"a">>, patch)
    \/ Ready(MaxInflight) /\ DeleteModpack(1, <<"a">>)
    \/ Ready(MaxInflight) /\ GetModpackRead(<<"a">>)
    \/ \E p \in Requests : Resumes(p) /\ GetModpackCommit(p)
    \/ Ready(MaxInflight) /\ get_project_detail(<<"a">>)
    \/ SendResponse

SpecRace == Init /\ [][NextRace]_vars

\* Requests to the versions of one modpack, MaxInflight of them at a time.
NextLedgerRace ==
    \/ Ready(MaxInflight) /\ CreateModpack(1, <<"a">>)
    \/ Ready(MaxInflight) /\ UpdateModpack(1, <<"a">>, [is_published |-> TRUE])
    \/ \E c \in Users : Ready(MaxInflight) /\ CreateVersionCheck(c, <<"a">>, <<"1">>, TRUE, NULL)
    \/ \E p \in Requests : Resumes(p) /\ CreateVersionCommit(p)
    \/ Ready(MaxInflight) /\ ListVersions(<<"a">>, FALSE)
    \/ Ready(MaxInflight) /\ GetVersionRead(<<"a">>, <<"1">>)
    \/ \E p \in Requests : Resumes(p) /\ GetVersionCommit(p)
    \/ SendResponse

SpecLedgerRace == Init /\ [][NextLedgerRace]_vars

\* Uploads by the author to one version, MaxInflight of them at a time.
NextUploadRace ==
    \/ Ready(MaxInflight) /\ CreateModpack(1, <<"a">>)
    \/ Ready(MaxInflight) /\ CreateVersionCheck(1, <<"a">>, <<"1">>, TRUE, NULL)
    \/ \E p \in Requests : Resumes(p) /\ CreateVersionCommit(p)
    \/ \E fname \in {<<"f", ".zip">>, <<"f", ".mrpack">>}, size \in 1..(MAX_FILE_SIZE + 1) :
          Ready(MaxInflight) /\ UploadOpen(1, <<"a">>, <<"1">>, fname, size)
    \/ \E p \in Requests : Resumes(p) /\ UploadFinish(p)
    \/ Ready(MaxInflight) /\ delete_modpack_file(1, <<"a">>, <<"1">>)
    \/ SendResponse

SpecUploadRace == Init /\ [][NextUploadRace]_vars

\* Two modpacks of two authors, each with versions, one request at a time.
NextCascade ==
    \/ \E c \in Users, name \in {<<"a">>, <<"a", " ", "b">>} :
          Ready(1) /\ CreateModpack(c, name)
    \/ \E c \in Users, slug \in Targets :
          Ready(1) /\ UpdateModpack(c, slug, [is_published |-> TRUE])
    \/ \E c \in Users, slug \in Targets :
          Ready(1) /\ CreateVersionCheck(c, slug, <<"1">>, TRUE, NULL)
    \/ \E p \in Requests : Resumes(p) /\ CreateVersionCommit(p)
    \/ \E c \in Users, slug \in Targets : Ready(1) /\ DeleteModpack(c, slug)
    \/ \E slug \in Targets : Ready(1) /\ GetModpackRead(slug)
    \/ \E p \in Requests : Resumes(p) /\ GetModpackCommit(p)
    \/ SendResponse

SpecCascade == Init /\ [][NextCascade]_vars

\* Bodies of ModpackUpdate over all its fields: one field, several, none,
\* and a field given as null.
FieldPatches ==
    Patches \cup
    { << >>,
      [description |-> <<"b">>],
      [description |-> NULL, loader_version |-> <<"47">>],
      [mc_version |-> <<"1.21">>, loader |-> <<"fabric">>],
      [name |-> <<"A", "!">>, is_published |-> TRUE] }

\* Updates of one modpack between fetches of it, one request at a time.
NextPatch ==
    \/ \E c \in Users : Ready(1) /\ CreateModpack(c, <<"a">>)
    \/ \E c \in Users, patch \in FieldPatches : Ready(1) /\ UpdateModpack(c, <<"a">>, patch)
    \/ Ready(1) /\ GetModpackRead(<<"a">>)
    \/ \E p \in Requests : Resumes(p) /\ GetModpackCommit(p)
    \/ SendResponse

SpecPatch == Init /\ [][NextPatch]_vars

\* The path segments of GET /modpacks/{slug}/versions/{segment} requests,
\* which are also the labels the author gives to versions.
Segments == { <<"1">>, <<"latest">> }

\* Version reads of one published modpack, one request at a time.
NextLatest ==
    \/ Ready(1) /\ CreateModpack(1, <<"a">>)
    \/ Ready(1) /\ UpdateModpack(1, <<"a">>, [is_published |-> TRUE])
    \/ \E label \in Segments, stable \in BOOLEAN :
          Ready(1) /\ CreateVersionCheck(1, <<"a">>, label, stable, NULL)
    \/ \E p \in Requests : Resumes(p) /\ CreateVersionCommit(p)
    \/ \E segment \in Segments, so \in BOOLEAN :
          Ready(1) /\ GetVersionsPath(<<"a">>, segment, so)
    \/ \E p \in Requests : Resumes(p) /\ GetVersionCommit(p)
    \/ SendResponse

SpecLatest == Init /\ [][NextLatest]_vars

\* Project detail of one modpack between fetches of it and of its versions,
\* stable and unstable, one request at a time.
NextDetail ==
    \/ Ready(1) /\ CreateModpack(1, <<"a">>)
    \/ Ready(1) /\ UpdateModpack(1, <<"a">>, [is_published |-> TRUE])
    \/ \E label \in Segments, stable \in BOOLEAN :
          Ready(1) /\ CreateVersionCheck(1, <<"a">>, label, stable, NULL)
    \/ \E p \in Requests : Resumes(p) /\ CreateVersionCommit(p)
    \/ Ready(1) /\ GetModpackRead(<<"a">>)
    \/ \E p \in Requests : Resumes(p) /\ GetModpackCommit(p)
    \/ \E label \in Segments : Ready(1) /\ GetVersionRead(<<"a">>, label)
    \/ \E p \in Requests : Resumes(p) /\ GetVersionCommit(p)
    \/ Ready(1) /\ get_project_detail(<<"a">>)
    \/ SendResponse

SpecDetail == Init /\ [][NextDetail]_vars

\* The labels and the download_url values a client sends to create version:
\* the label "b-1" under the slug "a" and the label "1" under the slug "a-b"
\* make the same file name, and the URL names the file that an upload to
\* version "1" of the modpack "a" stores.
ClientLabels == { <<"1">>, <<"b", "-", "1">> }

ClientUrls == { NULL, UploadUrl(<<"a", "-", "1", ".zip">>) }

\* Two authors, each with a modpack of their own, versions with labels and
\* URLs of their choice, uploads and file deletions, one request at a time.
NextIsolation ==
    \/ Ready(1) /\ CreateModpack(1, <<"a">>)
    \/ Ready(1) /\ CreateModpack(2, <<"a", " ", "b">>)
    \/ \E c \in Users, slug \in Targets, label \in ClientLabels, url \in ClientUrls :
          Ready(1) /\ CreateVersionCheck(c, slug, label, TRUE, url)
    \/ \E p \in Requests : Resumes(p) /\ CreateVersionCommit(p)
    \/ \E c \in Users, slug \in Targets, label \in ClientLabels :
          Ready(1) /\ UploadOpen(c, slug, label, <<"f", ".zip">>, 1)
    \/ \E p \in Requests : Resumes(p) /\ UploadFinish(p)
    \/ \E c \in Users, slug \in Targets, label \in ClientLabels :
          Ready(1) /\ delete_modpack_file(c, slug, label)
    \/ SendResponse

SpecIsolation == Init /\ [][NextIsolation]_vars

(* ------------------------------ properties ---------------------------- *)

\* Every download counter of the store, by row.
DownloadCounters ==
    << { <<m.id, m.downloads>> : m \in modpacks },
       { <<v.id, v.downloads>> : v \in versions } >>

HiddenReadOps == {"get_modpack", "list_versions", "get_version", "get_project_detail"}

OwnerOps == {"update_modpack", "delete_modpack", "create_version",
             "upload_modpack_file", "delete_modpack_file"}

\* C1: a request to get-by-slug, version list, version get or project
\* detail for a modpack that is unpublished is answered 404, and it changes
\* no download counter. These handlers take no caller, so the answer is the
\* same for every caller.
C1_UnpublishedIsNotFound ==
    [][ \A m \in modpacks :
          (~m.is_published /\ resp'.op \in HiddenReadOps /\ resp'.slug = m.slug)
             => (resp'.status = 404 /\ DownloadCounters' = DownloadCounters) ]_vars

\* A version of an unpublished modpack was asked for and answered 404.
C1_Witness ==
    /\ resp.op = "get_version"
    /\ resp.status = 404
    /\ \E m \in BySlug(resp.slug) : ~m.is_published /\ ByLabel(m.id, resp.arg) # {}

\* C2: no read returns a row, or a field of a row, of an unpublished modpack
\* to a caller who is not its author. The read handlers take no caller, so
\* whatever they return, they return to everyone.
C2_UnpublishedInvisible ==
    /\ resp.op \in {"list_modpacks", "search_modpacks", "get_modpack"}
          => \A i \in 1..Len(resp.body) : resp.body[i].is_published
    /\ resp.op = "get_project_detail"
          => \A i \in 1..Len(resp.body) : resp.body[i].is_published
    /\ resp.op \in {"list_versions", "get_version"}
          => \A i \in 1..Len(resp.body) :
                \A m \in ById(resp.body[i].modpack_id) : m.is_published

\* C3: update modpack, delete modpack, create version, upload file and
\* delete file, called by an authenticated user who is not the modpack's
\* author, answer 403 and leave the modpacks, the versions and the stored
\* files as they were.
C3_NonOwnerForbidden ==
    [][ \A m \in modpacks :
          (/\ resp'.op \in OwnerOps
           /\ resp'.slug = m.slug
           /\ resp'.caller \in Users
           /\ resp'.caller # m.author_id)
             => (/\ resp'.status = 403
                 /\ modpacks' = modpacks
                 /\ versions' = versions
                 /\ files' = files) ]_vars

\* A user who is not the author asked to delete a file that a version of
\* the modpack refers to and that is stored, and was answered 403.
C3_Witness ==
    /\ resp.op = "delete_modpack_file"
    /\ resp.status = 403
    /\ \E m \in BySlug(resp.slug) :
          /\ resp.caller # m.author_id
          /\ \E v \in ByLabel(m.id, resp.arg) :
                v.download_url # NULL /\ Stored(LastSegment(v.download_url)) # {}

\* What a handler answers when no modpack has the slug: 401 to a caller
\* without identity on a handler that requires one, else 404.
MissingStatus(op, c) ==
    IF op \in OwnerOps /\ ~Authenticated(c) THEN 401 ELSE 404

\* C4: a request addressed to the slug of an unpublished modpack by anyone
\* but its author is answered as the same request to a slug that no modpack
\* has.
C4_HiddenLikeMissing ==
    \A m \in modpacks :
        (/\ resp.op \in HiddenReadOps \cup OwnerOps
         /\ resp.slug = m.slug
         /\ ~m.is_published
         /\ resp.caller # m.author_id)
           => resp.status = MissingStatus(resp.op, resp.caller)

\* C5: no two version rows have the same modpack_id and the same version.
C5_LabelUniquePerModpack ==
    \A v, w \in versions :
        (v.modpack_id = w.modpack_id /\ v.version = w.version) => v = w

\* C6: create modpack with a name whose slug a modpack already has is
\* answered 400, adds no row and leaves the rows as they were, also when
\* the name differs from the name of the modpack that has the slug.
C6_DuplicateSlugRejected ==
    [][ (/\ resp'.op = "create_modpack"
         /\ resp'.caller \in Users
         /\ BySlug(generate_slug(resp'.arg)) # {})
           => (resp'.status = 400 /\ modpacks' = modpacks) ]_vars

\* A create was answered 400 for a name that differs from the name of the
\* modpack that has its slug.
C6_Witness ==
    /\ resp.op = "create_modpack"
    /\ resp.status = 400
    /\ \E m \in BySlug(generate_slug(resp.arg)) : m.name # resp.arg

\* C7: create version by the author with a label that a version of the
\* modpack already has is answered 400, adds no version row and leaves the
\* version rows, their download counters included, as they were.
C7_DuplicateLabelRejected ==
    [][ \A m \in modpacks :
          (/\ resp'.op = "create_version"
           /\ resp'.slug = m.slug
           /\ resp'.caller = m.author_id
           /\ ByLabel(m.id, resp'.arg) # {})
             => (resp'.status = 400 /\ versions' = versions) ]_vars

\* The author's create version was answered 400 while the version with the
\* label has been downloaded and has a file.
C7_Witness ==
    /\ resp.op = "create_version"
    /\ resp.status = 400
    /\ \E m \in BySlug(resp.slug) :
          /\ resp.caller = m.author_id
          /\ \E v \in ByLabel(m.id, resp.arg) : v.downloads > 0 /\ v.download_url # NULL

\* C8: each get-by-slug that is answered 200 leaves the modpack's download
\* counter exactly 1 higher than it was before the answer, however the
\* requests interleave (so n of them leave it n higher).
C8_ExactlyOnePerCall ==
    [][ (resp'.op = "get_modpack" /\ resp'.status = 200)
           => \A m \in ById(resp'.body[1].id) :
                 resp'.body[1].downloads = m.downloads + 1 ]_vars

\* C9: while a row exists no step makes its download counter smaller, and
\* no counter is below 0.
C9_CountersMonotonic ==
    [][ /\ \A m \in modpacks : \A n \in modpacks' :
              m.id = n.id => (n.downloads >= m.downloads /\ n.downloads >= 0)
        /\ \A v \in versions : \A w \in versions' :
              v.id = w.id => (w.downloads >= v.downloads /\ w.downloads >= 0) ]_vars

\* C10: project detail, for any slug and any number of times, leaves the
\* modpacks, the versions and the stored files as they were.
C10_ProjectDetailReadOnly ==
    [][ resp'.op = "get_project_detail"
           => (modpacks' = modpacks /\ versions' = versions /\ files' = files) ]_vars

\* Project detail answered 200 for a modpack with downloads and a version.
C10_Witness ==
    /\ resp.op = "get_project_detail"
    /\ resp.status = 200
    /\ resp.body[1].total_downloads > 0
    /\ Len(resp.body[1].versions) > 0

\* The request p is answered in this step.
Retired(p) == p \in Requests /\ pending' = pending (-) SetToBag({p})

\* An upload of more than MAX_FILE_SIZE that has opened its file.
Oversize(p) == p.op = "upload_modpack_file" /\ p.size > MAX_FILE_SIZE

\* C11: an upload of more than MAX_FILE_SIZE changes no version record,
\* neither when it opens its file nor when it is answered, and when it is
\* answered no file is stored under its destination name.
C11_OversizeLeavesNothing ==
    [][ /\ \A p \in Requests' : Oversize(p) => versions' = versions
        /\ \A p \in Requests :
              (Oversize(p) /\ Retired(p))
                 => (versions' = versions /\ Stored(p.file)' = {}) ]_vars

\* An oversize upload was answered for a version that has the URL and the
\* size of an earlier upload.
C11_Witness ==
    /\ resp.op = "upload_modpack_file"
    /\ resp.body = UploadFailed("413")
    /\ \E m \in BySlug(resp.slug) : \E v \in ByLabel(m.id, resp.arg) :
          v.download_url # NULL /\ v.file_size # NULL

\* C12: an upload of more than MAX_FILE_SIZE is answered 413.
C12_OversizeIsPayloadTooLarge ==
    [][ \A p \in Requests :
          (Oversize(p) /\ Retired(p)) => resp'.status = 413 ]_vars

\* C13: an upload by the author with a file name that ends neither in .zip
\* nor in .mrpack is answered 400, and it leaves the stored files and the
\* version records as they were, whether or not the version exists.
C13_BadExtensionRejected ==
    [][ \A c \in Users, slug \in Targets : \A m \in BySlug(slug) :
          m.author_id = c =>
             \A fname \in { n \in FileNames : ~AllowedExtension(n) },
                size \in 1..(MAX_FILE_SIZE + 1) :
                UploadOpen(c, slug, <<"1">>, fname, size)
                   => (resp'.status = 400 /\ files' = files /\ versions' = versions) ]_vars

\* An upload was answered 400 while the version exists and has a stored
\* file of an earlier upload.
C13_Witness ==
    /\ resp.op = "upload_modpack_file"
    /\ resp.status = 400
    /\ \E m \in BySlug(resp.slug) : \E v \in ByLabel(m.id, resp.arg) :
          v.download_url # NULL /\ Stored(LastSegment(v.download_url)) # {}

\* C14: when an upload is answered 200, the version has the URL of the
\* file name the answer gives, which is the slug, the label and an allowed
\* extension, its file_size is the size the answer gives, and the file
\* stored under that name holds exactly that many bytes, however the
\* uploads interleave.
C14_RecordMatchesFile ==
    (resp.op = "upload_modpack_file" /\ resp.status = 200) =>
        LET r == resp.body[1] IN
        /\ r.filename \in { safe_filename(resp.slug, resp.arg, fname) :
                               fname \in { n \in FileNames : AllowedExtension(n) } }
        /\ r.download_url = UploadUrl(r.filename)
        /\ \E m \in BySlug(resp.slug) : \E v \in ByLabel(m.id, resp.arg) :
              v.download_url = r.download_url /\ v.file_size = <<r.size>>
        /\ \E f \in Stored(r.filename) : f.size = r.size

\* The stored files whose name is the slug, a hyphen, the label and one
\* extension.
SlotFiles(slug, label) ==
    { f \in files : \E ext \in {".zip", ".mrpack"} :
                       f.name = slug \o <<"-">> \o label \o <<ext>> }

\* C15: while no upload is being served, for every modpack and every label
\* of one of its versions at most one stored file has the name of that
\* slug and label.
C15_OneFilePerSlot ==
    Inflight("upload_modpack_file") = {} =>
        \A m \in modpacks : \A v \in VersionsOf(m.id) :
            Cardinality(SlotFiles(m.slug, v.version)) <= 1

\* C16: delete file by the author is answered 404, with the version
\* records and the stored files as they were, when no version of the
\* modpack has the label or the one that has it has no download_url; else
\* it is answered 200, the file the download_url names is not stored, and
\* the version record differs from what it was only in download_url and
\* file_size, which are null.
C16_DeleteFileClearsFields ==
    [][ \A m \in modpacks :
          (/\ resp'.op = "delete_modpack_file"
           /\ resp'.slug = m.slug
           /\ resp'.caller = m.author_id)
             => IF \A v \in ByLabel(m.id, resp'.arg) : v.download_url = NULL
                THEN /\ resp'.status = 404
                     /\ versions' = versions
                     /\ files' = files
                ELSE \E v \in ByLabel(m.id, resp'.arg) :
                     /\ resp'.status = 200
                     /\ files' = files \ Stored(LastSegment(v.download_url))
                     /\ versions' = (versions \ {v}) \cup
                            {[v EXCEPT !.download_url = NULL, !.file_size = NULL]} ]_vars

\* The author deleted the file of a version that has been downloaded: the
\* version is still there with its counter, and its file is not stored.
C16_Witness ==
    /\ resp.op = "delete_modpack_file"
    /\ resp.status = 200
    /\ \E m \in BySlug(resp.slug) : \E v \in ByLabel(m.id, resp.arg) :
          /\ v.downloads > 0
          /\ v.download_url = NULL
          /\ SlotFiles(m.slug, v.version) = {}

\* C17: delete modpack by the author is answered 204 and removes the
\* modpack's row and the version rows that refer to it, and no other row;
\* get-by-slug for a slug that no modpack has is answered 404.
C17_DeleteCascades ==
    [][ /\ \A m \in modpacks :
              (/\ resp'.op = "delete_modpack"
               /\ resp'.slug = m.slug
               /\ resp'.caller = m.author_id)
                 => (/\ resp'.status = 204
                     /\ modpacks' = modpacks \ {m}
                     /\ versions' = { v \in versions : v.modpack_id # m.id })
        /\ (resp'.op = "get_modpack" /\ BySlug(resp'.slug) = {})
              => resp'.status = 404 ]_vars

\* A modpack with a version was deleted while another modpack has one:
\* of the two versions created, the other modpack's is the one left.
C17_Witness ==
    /\ resp.op = "delete_modpack"
    /\ resp.status = 204
    /\ BySlug(resp.slug) = {}
    /\ nextVersionId = 3
    /\ \E m \in modpacks : Cardinality(VersionsOf(m.id)) = 1 /\ versions = VersionsOf(m.id)

\* C18: when delete modpack is answered 204, no file stored under the name
\* of the modpack's slug and the label of one of its versions remains.
C18_DeleteRemovesFiles ==
    [][ \A m \in modpacks :
          (/\ resp'.op = "delete_modpack"
           /\ resp'.status = 204
           /\ resp'.slug = m.slug)
             => \A v \in VersionsOf(m.id) : SlotFiles(m.slug, v.version)' = {} ]_vars

\* C19: update by the author is answered 200 and replaces the modpack's row
\* by one that has the patch's value in every field the patch gives and
\* the old value in every other field; slug, downloads, author_id and id
\* are as they were, also when the patch changes the name.
C19_UpdateChangesPatchedFieldsOnly ==
    [][ \A c \in Users, patch \in FieldPatches : \A m \in BySlug(<<"a">>) :
          (UpdateModpack(c, <<"a">>, patch) /\ m.author_id = c)
             => /\ resp'.status = 200
                /\ \E n \in modpacks' :
                      /\ modpacks' = (modpacks \ {m}) \cup {n}
                      /\ \A f \in DOMAIN m :
                            n[f] = IF f \in DOMAIN patch THEN patch[f] ELSE m[f]
                      /\ n.slug = m.slug
                      /\ n.downloads = m.downloads
                      /\ n.author_id = m.author_id
                      /\ n.id = m.id ]_vars

\* An update that changed the name of a downloaded modpack to one whose
\* slug would differ was answered with the slug and the counter kept.
C19_Witness ==
    /\ resp.op = "update_modpack"
    /\ resp.status = 200
    /\ generate_slug(resp.body[1].name) # resp.body[1].slug
    /\ resp.body[1].slug = resp.slug
    /\ resp.body[1].downloads > 0

\* C20: GET /modpacks/a/versions/latest on a published modpack changes no
\* download counter and is answered 404 when no version matches the
\* stability filter, else 200 with a version that matches it and has the
\* greatest created_at of those that do.
C20_LatestIsNewest ==
    [][ \A so \in BOOLEAN : \A m \in BySlug(<<"a">>) :
          (GetVersionsPath(<<"a">>, <<"latest">>, so) /\ m.is_published)
             => LET matching == { v \in VersionsOf(m.id) : so => v.is_stable } IN
                /\ DownloadCounters' = DownloadCounters
                /\ IF matching = {}
                   THEN resp'.status = 404
                   ELSE /\ resp'.status = 200
                        /\ resp'.body[1] \in matching
                        /\ \A v \in matching :
                              v.created_at <= resp'.body[1].created_at ]_vars

\* The downloads of the versions of modpack mid among the ids 1..n.
RECURSIVE DownloadsUpTo(_, _)
DownloadsUpTo(mid, n) ==
    IF n = 0 THEN 0
    ELSE LET hit == { v \in versions : v.id = n /\ v.modpack_id = mid } IN
         (IF hit = {} THEN 0 ELSE (CHOOSE v \in hit : TRUE).downloads)
            + DownloadsUpTo(mid, n - 1)

\* C21: every project detail that is answered 200 gives as
\* version_downloads the sum of the download counters the modpack's
\* versions have at that call, and as total_downloads the download counter
\* the modpack has at that call.
C21_DownloadStatsAreCurrent ==
    [][ \A m \in modpacks :
          (/\ resp'.op = "get_project_detail"
           /\ resp'.status = 200
           /\ resp'.slug = m.slug)
             => (/\ resp'.body[1].version_downloads = DownloadsUpTo(m.id, nextVersionId - 1)
                 /\ resp'.body[1].total_downloads = m.downloads) ]_vars

\* Project detail answered for a modpack that has been fetched and has two
\* versions that have both been fetched.
C21_Witness ==
    /\ resp.op = "get_project_detail"
    /\ resp.status = 200
    /\ resp.body[1].total_downloads > 0
    /\ Len(resp.body[1].versions) = 2
    /\ \A i \in 1..2 : resp.body[1].versions[i].downloads > 0
    /\ resp.body[1].version_downloads > resp.body[1].total_downloads

\* C22: the versions of every project detail that is answered 200 are the
\* modpack's versions, stable or not, each once, with created_at
\* descending and, where created_at is equal, id descending.
C22_VersionsCompleteAndSorted ==
    [][ \A m \in modpacks :
          (/\ resp'.op = "get_project_detail"
           /\ resp'.status = 200
           /\ resp'.slug = m.slug)
             => LET rows == resp'.body[1].versions IN
                /\ Len(rows) = Cardinality(VersionsOf(m.id))
                /\ { rows[i] : i \in 1..Len(rows) } = VersionsOf(m.id)
                /\ \A i \in 1..Len(rows) : \A j \in (i + 1)..Len(rows) :
                      \/ rows[i].created_at > rows[j].created_at
                      \/ /\ rows[i].created_at = rows[j].created_at
                         /\ rows[i].id > rows[j].id ]_vars

\* Project detail answered with two versions of the same created_at, one
\* of them not stable.
C22_Witness ==
    /\ resp.op = "get_project_detail"
    /\ resp.status = 200
    /\ Len(resp.body[1].versions) = 2
    /\ resp.body[1].versions[1].created_at = resp.body[1].versions[2].created_at
    /\ \E i \in 1..2 : ~resp.body[1].versions[i].is_stable

\* The callers of the requests that take this step: the one answered, or
\* the one that has gone from its read on to its commit.
Actors ==
    IF resp' # NoResp THEN {resp'.caller}
    ELSE { p.caller : p \in BagToSet(pending' (-) pending) }

\* A version of modpack m whose download_url and file_size an upload has
\* set, with the file of that upload stored.
Uploaded(m, v) ==
    /\ v.modpack_id = m.id
    /\ v.file_size # NULL
    /\ \E f \in SlotFiles(m.slug, v.version) : v.download_url = UploadUrl(f.name)

\* C23: a step that truncates, rewrites or removes the stored file of an
\* upload to a version of a modpack is a step of a request of that
\* modpack's author.
C23_FilesIsolated ==
    [][ \A m \in modpacks : \A v \in versions :
          (/\ Uploaded(m, v)
           /\ Stored(LastSegment(v.download_url))' # Stored(LastSegment(v.download_url)))
             => Actors \subseteq {m.author_id} ]_vars

\* C24: when an upload is answered 500, the file that the download_url of
\* the version it was for names, if that version had the file of an
\* earlier upload, is stored and holds as many bytes as file_size says.
C24_FailedUploadKeepsEarlierFile ==
    [][ \A p \in Requests :
          (p.op = "upload_modpack_file" /\ Retired(p) /\ resp'.status = 500)
             => \A v \in versions' :
                   (v.id = p.vid /\ v.download_url # NULL /\ v.file_size # NULL)
                      => \E f \in Stored(LastSegment(v.download_url))' :
                            <<f.size>> = v.file_size ]_vars

====
